---- MODULE Spec2Model ----
(***************************************************************************)
(* AllegroWindow: the adapter that puts an Allegro display and event queue *)
(* behind the generic Window / AdvancedWindow / EventLoop traits.          *)
(* The model covers construction, the three polling operations, the close  *)
(* policy, the accessors and the release of the native handles.            *)
(***************************************************************************)
EXTENDS Integers, Sequences, FiniteSets, TLC

\* Most raw events the native queue buffers at once.
MaxQueue == 2
\* The count of no-event markers one wait_event call skipped saturates here.
MaxMask == 15
MaxDelivered == 3
MaxSkipped == 4

VARIABLES
    phase,          \* "unbuilt" | "open" | "failed" | "panicked" | "dropped"
    pc,             \* "idle" | "wait_event": where the calling thread is
    should_close,   \* AllegroWindow.should_close
    exit_on_esc,    \* AllegroWindow.exit_on_esc
    title,          \* AllegroWindow.title
    event_settings, \* AllegroWindow.event_settings
    display,        \* the native display: its window title and position
    event_queue,    \* the raw events the native queue holds, oldest first
    registered,     \* the event sources registered with the native queue
    acquired,       \* native handles in the order they were acquired
    released,       \* native handles in the order they were released
    last,           \* the most recent call on the window and what it gave back
    delivered,      \* log: the raw events the native sources put on the queue
    returned        \* log: the events the polling operations handed to the caller

vars == <<phase, pc, should_close, exit_on_esc, title, event_settings, display,
          event_queue, registered, acquired, released, last, delivered, returned>>

(***************************************************************************)
(* Values: input::Input, Option<Input>, Result and a panic, in one shape.  *)
(***************************************************************************)
Val(kind, state, dev, code, scancode, x, y) ==
    [kind |-> kind, state |-> state, dev |-> dev, code |-> code,
     scancode |-> scancode, x |-> x, y |-> y]

Close == Val("Close", "", "", "", "", 0, 0)
Resize(w, h) == Val("Resize", "", "", "", "", w, h)
KeyboardButton(state, key) == Val("Button", state, "Keyboard", key, "None", 0, 0)
MouseButton(state, button) == Val("Button", state, "Mouse", button, "None", 0, 0)
Text(s) == Val("Text", "", "", s, "", 0, 0)
MouseRelative(dx, dy) == Val("Move", "", "MouseRelative", "", "", dx, dy)
MouseCursor(x, y) == Val("Move", "", "MouseCursor", "", "", x, y)
Cursor(entered) == Val("Cursor", "", "", IF entered THEN "true" ELSE "false", "", 0, 0)

Panic(msg) == Val("Panic", "", "", msg, "", 0, 0)
None == Val("None", "", "", "", "", 0, 0)
Unit == Val("Unit", "", "", "", "", 0, 0)
Pending == Val("Pending", "", "", "", "", 0, 0)
Ok == Val("Ok", "", "", "", "", 0, 0)
Err(msg) == Val("Err", "", "", msg, "", 0, 0)

IsPanic(v) == v.kind = "Panic"
IsInput(v) == v.kind \in {"Button", "Move", "Text", "Resize", "Cursor", "Close"}

(***************************************************************************)
(* allegro::Event, the raw events of the native queue.                     *)
(***************************************************************************)
Raw(type, code, button, x, y) ==
    [type |-> type, code |-> code, button |-> button, x |-> x, y |-> y]

NoEvent == Raw("NoEvent", "", 0, 0, 0)
DisplayClose == Raw("DisplayClose", "", 0, 0, 0)
DisplayResize(w, h) == Raw("DisplayResize", "", 0, w, h)
JoystickAxes == Raw("JoystickAxes", "", 0, 0, 0)
JoystickButtonDown == Raw("JoystickButtonDown", "", 0, 0, 0)
JoystickButtonUp == Raw("JoystickButtonUp", "", 0, 0, 0)
JoystickConfiguration == Raw("JoystickConfiguration", "", 0, 0, 0)
KeyDown(keycode) == Raw("KeyDown", keycode, 0, 0, 0)
KeyUp(keycode) == Raw("KeyUp", keycode, 0, 0, 0)
KeyChar(unichar) == Raw("KeyChar", unichar, 0, 0, 0)
MouseAxes(dx, dy) == Raw("MouseAxes", "", 0, dx, dy)
MouseButtonDown(button) == Raw("MouseButtonDown", "", button, 0, 0)
MouseButtonUp(button) == Raw("MouseButtonUp", "", button, 0, 0)
MouseWarped(x, y) == Raw("MouseWarped", "", 0, x, y)
MouseEnterDisplay == Raw("MouseEnterDisplay", "", 0, 0, 0)
MouseLeaveDisplay == Raw("MouseLeaveDisplay", "", 0, 0, 0)
TimerTick == Raw("TimerTick", "", 0, 0, 0)

(***************************************************************************)
(* The translators.                                                        *)
(***************************************************************************)
\* `as u32` of the width and height of a resize: the display reports sizes
\* that are not negative, and the cast keeps every such value.
AsU32(n) == n

PanicKey == "!unknown key"
PanicButton == "!unknown mouse button"

translate_keycode(keycode) ==
    CASE keycode = "A" -> "A"
      [] keycode = "B" -> "B"
      [] keycode = "C" -> "C"
      [] keycode = "D" -> "D"
      [] keycode = "E" -> "E"
      [] keycode = "F" -> "F"
      [] keycode = "G" -> "G"
      [] keycode = "H" -> "H"
      [] keycode = "I" -> "I"
      [] keycode = "J" -> "J"
      [] keycode = "K" -> "K"
      [] keycode = "L" -> "L"
      [] keycode = "M" -> "M"
      [] keycode = "N" -> "N"
      [] keycode = "O" -> "O"
      [] keycode = "P" -> "P"
      [] keycode = "Q" -> "Q"
      [] keycode = "R" -> "R"
      [] keycode = "S" -> "S"
      [] keycode = "T" -> "T"
      [] keycode = "U" -> "U"
      [] keycode = "V" -> "V"
      [] keycode = "W" -> "W"
      [] keycode = "X" -> "X"
      [] keycode = "Y" -> "Y"
      [] keycode = "Z" -> "Z"
      [] keycode = "_0" -> "D0"
      [] keycode = "_1" -> "D1"
      [] keycode = "_2" -> "D2"
      [] keycode = "_3" -> "D3"
      [] keycode = "_4" -> "D4"
      [] keycode = "_5" -> "D5"
      [] keycode = "_6" -> "D6"
      [] keycode = "_7" -> "D7"
      [] keycode = "_8" -> "D8"
      [] keycode = "_9" -> "D9"
      [] keycode = "Pad0" -> "NumPad0"
      [] keycode = "Pad1" -> "NumPad1"
      [] keycode = "Pad2" -> "NumPad2"
      [] keycode = "Pad3" -> "NumPad3"
      [] keycode = "Pad4" -> "NumPad4"
      [] keycode = "Pad5" -> "NumPad5"
      [] keycode = "Pad6" -> "NumPad6"
      [] keycode = "Pad7" -> "NumPad7"
      [] keycode = "Pad8" -> "NumPad8"
      [] keycode = "Pad9" -> "NumPad9"
      [] keycode = "F1" -> "F1"
      [] keycode = "F2" -> "F2"
      [] keycode = "F3" -> "F3"
      [] keycode = "F4" -> "F4"
      [] keycode = "F5" -> "F5"
      [] keycode = "F6" -> "F6"
      [] keycode = "F7" -> "F7"
      [] keycode = "F8" -> "F8"
      [] keycode = "F9" -> "F9"
      [] keycode = "F10" -> "F10"
      [] keycode = "F11" -> "F11"
      [] keycode = "F12" -> "F12"
      [] keycode = "Escape" -> "Escape"
      [] keycode = "Minus" -> "Minus"
      [] keycode = "Equals" -> "Equals"
      [] keycode = "Backspace" -> "Backspace"
      [] keycode = "Tab" -> "Tab"
      [] keycode = "Openbrace" -> "LeftBracket"
      [] keycode = "Closebrace" -> "RightBracket"
      [] keycode = "Enter" -> "Return"
      [] keycode = "Semicolon" -> "Semicolon"
      [] keycode = "Quote" -> "Quote"
      [] keycode = "Backslash" -> "Backslash"
      [] keycode = "Backslash2" -> "Backslash"
      [] keycode = "Comma" -> "Comma"
      [] keycode = "Slash" -> "Slash"
      [] keycode = "Space" -> "Space"
      [] keycode = "Insert" -> "Insert"
      [] keycode = "Delete" -> "Delete"
      [] keycode = "Home" -> "Home"
      [] keycode = "End" -> "End"
      [] keycode = "PgUp" -> "PageUp"
      [] keycode = "PgDn" -> "PageDown"
      [] keycode = "Left" -> "Left"
      [] keycode = "Right" -> "Right"
      [] keycode = "Up" -> "Up"
      [] keycode = "Down" -> "Down"
      [] keycode = "PadMinus" -> "NumPadMinus"
      [] keycode = "PadPlus" -> "NumPadPlus"
      [] keycode = "PadEnter" -> "NumPadEnter"
      [] keycode = "PrintScreen" -> "PrintScreen"
      [] keycode = "Pause" -> "Pause"
      [] keycode = "At" -> "At"
      [] keycode = "Colon2" -> "NumPadColon"
      [] keycode = "PadEquals" -> "NumPadEquals"
      [] keycode = "Backquote" -> "Backquote"
      [] keycode = "Semicolon2" -> "Semicolon"
      [] keycode = "Unknown" -> "Unknown"
      [] keycode = "LShift" -> "LShift"
      [] keycode = "RShift" -> "RShift"
      [] keycode = "LCtrl" -> "LCtrl"
      [] keycode = "RCtrl" -> "RCtrl"
      [] keycode = "Alt" -> "LAlt"
      [] keycode = "AltGr" -> "RAlt"
      [] keycode = "LWin" -> "LGui"
      [] keycode = "RWin" -> "RGui"
      [] keycode = "Menu" -> "Menu"
      [] keycode = "ScrollLock" -> "ScrollLock"
      [] keycode = "NumLock" -> "NumLockClear"
      [] keycode = "CapsLock" -> "CapsLock"
      [] OTHER -> PanicKey

\* Variant: the mask is compared with 1, 2 and 4 instead of tested bit by bit.
translate_mouse_button_exact(button) ==
    IF button = 1 THEN "Left"
    ELSE IF button = 2 THEN "Right"
    ELSE IF button = 4 THEN "Middle"
    ELSE PanicButton

translate_mouse_button(button) ==
    IF button % 2 = 1 THEN "Left"
    ELSE IF (button \div 2) % 2 = 1 THEN "Right"
    ELSE IF (button \div 4) % 2 = 1 THEN "Middle"
    ELSE PanicButton

\* A keyboard button, or the panic translate_keycode raised on the way.
KeyEvent(state, keycode) ==
    LET key == translate_keycode(keycode)
    IN  IF key = PanicKey THEN Panic("unknown key")
        ELSE KeyboardButton(state, key)

\* A mouse button, or the panic translate_mouse_button raised on the way.
ButtonEvent(state, mask) ==
    LET button == translate_mouse_button(mask)
    IN  IF button = PanicButton THEN Panic("unknown mouse button")
        ELSE MouseButton(state, button)

\* Variant: a released key is reported as pressed.
translate_event_key_up_pressed(event) ==
    CASE event.type = "NoEvent" -> Panic("received no event!")
      [] event.type = "DisplayClose" -> Close
      [] event.type = "DisplayResize" -> Resize(AsU32(event.x), AsU32(event.y))
      [] event.type \in {"JoystickAxes", "JoystickButtonDown", "JoystickButtonUp",
                         "JoystickConfiguration"} ->
            Panic("joystick events not supported")
      [] event.type = "KeyDown" -> KeyEvent("Press", event.code)
      [] event.type = "KeyUp" -> KeyEvent("Press", event.code)
      [] event.type = "KeyChar" -> Text(event.code)
      [] event.type = "MouseAxes" -> MouseRelative(event.x, event.y)
      [] event.type = "MouseButtonDown" -> ButtonEvent("Press", event.button)
      [] event.type = "MouseButtonUp" -> ButtonEvent("Release", event.button)
      [] event.type = "MouseWarped" -> MouseCursor(event.x, event.y)
      [] event.type = "MouseEnterDisplay" -> Cursor(TRUE)
      [] event.type = "MouseLeaveDisplay" -> Cursor(FALSE)
      [] event.type = "TimerTick" -> Panic("timer events not supported")

\* Variant: a joystick button is handed on as a controller button.
translate_event_joystick_button(event) ==
    CASE event.type = "NoEvent" -> Panic("received no event!")
      [] event.type = "DisplayClose" -> Close
      [] event.type = "DisplayResize" -> Resize(AsU32(event.x), AsU32(event.y))
      [] event.type \in {"JoystickAxes", "JoystickConfiguration"} ->
            Panic("joystick events not supported")
      [] event.type = "JoystickButtonDown" ->
            Val("Button", "Press", "Controller", "0", "None", 0, 0)
      [] event.type = "JoystickButtonUp" ->
            Val("Button", "Release", "Controller", "0", "None", 0, 0)
      [] event.type = "KeyDown" -> KeyEvent("Press", event.code)
      [] event.type = "KeyUp" -> KeyEvent("Release", event.code)
      [] event.type = "KeyChar" -> Text(event.code)
      [] event.type = "MouseAxes" -> MouseRelative(event.x, event.y)
      [] event.type = "MouseButtonDown" -> ButtonEvent("Press", event.button)
      [] event.type = "MouseButtonUp" -> ButtonEvent("Release", event.button)
      [] event.type = "MouseWarped" -> MouseCursor(event.x, event.y)
      [] event.type = "MouseEnterDisplay" -> Cursor(TRUE)
      [] event.type = "MouseLeaveDisplay" -> Cursor(FALSE)
      [] event.type = "TimerTick" -> Panic("timer events not supported")

translate_event(event) ==
    CASE event.type = "NoEvent" -> Panic("received no event!")
      [] event.type = "DisplayClose" -> Close
      [] event.type = "DisplayResize" -> Resize(AsU32(event.x), AsU32(event.y))
      [] event.type \in {"JoystickAxes", "JoystickButtonDown", "JoystickButtonUp",
                         "JoystickConfiguration"} ->
            Panic("joystick events not supported")
      [] event.type = "KeyDown" -> KeyEvent("Press", event.code)
      [] event.type = "KeyUp" -> KeyEvent("Release", event.code)
      [] event.type = "KeyChar" -> Text(event.code)
      [] event.type = "MouseAxes" -> MouseRelative(event.x, event.y)
      [] event.type = "MouseButtonDown" -> ButtonEvent("Press", event.button)
      [] event.type = "MouseButtonUp" -> ButtonEvent("Release", event.button)
      [] event.type = "MouseWarped" -> MouseCursor(event.x, event.y)
      [] event.type = "MouseEnterDisplay" -> Cursor(TRUE)
      [] event.type = "MouseLeaveDisplay" -> Cursor(FALSE)
      [] event.type = "TimerTick" -> Panic("timer events not supported")

(***************************************************************************)
(* The close policy: the value of should_close after handle_closings.      *)
(***************************************************************************)
IsEscapePress(event) ==
    /\ event.kind = "Button"
    /\ event.state = "Press"
    /\ event.dev = "Keyboard"
    /\ event.code = "Escape"

\* Variant: the exit_on_esc flag is not consulted.
handle_closings_any_escape(esc, closing, event) ==
    IF IsEscapePress(event) THEN TRUE ELSE closing

\* Variant: should_close is assigned the verdict instead of being set on it.
handle_closings_assign(esc, closing, event) ==
    esc /\ IsEscapePress(event)

\* Variant: a Close event asks for closing as well.
handle_closings_on_close(esc, closing, event) ==
    IF event.kind = "Close" \/ (esc /\ IsEscapePress(event)) THEN TRUE ELSE closing

\* Variant: an Escape press under exit_on_esc flips should_close.
handle_closings_toggle(esc, closing, event) ==
    IF esc /\ IsEscapePress(event) THEN ~closing ELSE closing

handle_closings(esc, closing, event) ==
    IF esc
    THEN IF IsEscapePress(event) THEN TRUE ELSE closing
    ELSE closing

(***************************************************************************)
(* Inputs of the operations, drawn from small sets.                        *)
(***************************************************************************)
Titles == {"T", "U"}
Positions == {<<0, 0>>, <<10, 20>>}
Durations == {999, 1500, 2000}    \* milliseconds
WindowSettings == [title : Titles, exit_on_esc : BOOLEAN, size : {<<640, 480>>}]
EventSettingsNew == [ups |-> 120, max_fps |-> 60]
EventSettings == {EventSettingsNew, [ups |-> 60, max_fps |-> 30]}

\* The raw events the display and keyboard sources (and a stray joystick)
\* put on the queue; NoEvent stands for a native event the binding
\* does not know and hands over as allegro::Event::NoEvent.
QueueEvents ==
    {NoEvent, DisplayClose, KeyDown("Escape"), KeyUp("Escape"), KeyDown("A"),
     JoystickAxes}

(***************************************************************************)
(* Construction and release of the native handles.                         *)
(***************************************************************************)
\* The steps of build_from_window_settings that can fail, in program order.
BuildSteps == <<"core", "display", "event_queue", "mouse", "keyboard">>
Handles == {"core", "display", "event_queue"}
\* The order in which a dropped AllegroWindow releases its fields.
FieldOrder == <<"display", "event_queue", "core">>

BuildError(step) ==
    CASE step = "core" -> "core init failed"
      [] step = "display" -> "failed to create display"
      [] step = "event_queue" -> "failed to create event queue"
      [] step = "mouse" -> "failed to install mouse"
      [] step = "keyboard" -> "failed to install mouse"

RECURSIVE Reverse(_)
Reverse(s) == IF s = <<>> THEN <<>> ELSE Append(Reverse(Tail(s)), Head(s))

OnlyHandles(s) == SelectSeq(s, LAMBDA r : r \in Handles)

\* Variant: the display is not released on an early return.
UnwindWithoutDisplay(done) ==
    SelectSeq(Reverse(OnlyHandles(done)), LAMBDA r : r # "display")

\* What the locals still alive at an early return release: reverse declaration order.
UnwindLocals(done) == Reverse(OnlyHandles(done))

Last(op, arg, flag, result, closings, skipped, timeout, requested) ==
    [op |-> op, arg |-> arg, flag |-> flag, result |-> result,
     closings |-> closings, skipped |-> skipped, timeout |-> timeout,
     requested |-> requested]

Init ==
    /\ phase = "unbuilt"
    /\ pc = "idle"
    /\ should_close = FALSE
    /\ exit_on_esc = FALSE
    /\ title = ""
    /\ event_settings = EventSettingsNew
    /\ display = [title |-> "", pos |-> <<0, 0>>]
    /\ event_queue = <<>>
    /\ registered = {}
    /\ acquired = <<>>
    /\ released = <<>>
    /\ last = Last("none", "", FALSE, Unit, 0, 0, 0, 0)
    /\ delivered = <<>>
    /\ returned = <<>>

\* Variant: the window is built with exit_on_esc on, whatever the settings say.
build_exit_on_esc_on(settings, failAt) ==
    /\ phase = "unbuilt"
    /\ IF failAt = 0
       THEN /\ phase' = "open"
            /\ acquired' = BuildSteps
            /\ released' = <<>>
            /\ registered' = {"display", "mouse", "keyboard"}
            /\ display' = [display EXCEPT !.title = settings.title]
            /\ exit_on_esc' = TRUE
            /\ title' = settings.title
            /\ event_settings' = EventSettingsNew
            /\ should_close' = FALSE
            /\ last' = Last("build", settings.title, settings.exit_on_esc, Ok, 0, 0, 0, 0)
       ELSE /\ phase' = "failed"
            /\ acquired' = SubSeq(BuildSteps, 1, failAt - 1)
            /\ released' = Reverse(OnlyHandles(acquired'))
            /\ last' = Last("build", settings.title, settings.exit_on_esc,
                            Err(BuildError(BuildSteps[failAt])), 0, 0, 0, 0)
            /\ UNCHANGED <<registered, display, exit_on_esc, title, event_settings,
                           should_close>>
    /\ UNCHANGED <<pc, event_queue>>

\* failAt = 0: every step succeeds; failAt = k: step k is the first to fail.
build_from_window_settings(settings, failAt) ==
    /\ phase = "unbuilt"
    /\ IF failAt = 0
       THEN /\ phase' = "open"
            /\ acquired' = BuildSteps
            /\ released' = <<>>
            /\ registered' = {"display", "mouse", "keyboard"}
            /\ display' = [display EXCEPT !.title = settings.title]
            /\ exit_on_esc' = settings.exit_on_esc
            /\ title' = settings.title
            /\ event_settings' = EventSettingsNew
            /\ should_close' = FALSE
            /\ last' = Last("build", settings.title, settings.exit_on_esc, Ok, 0, 0, 0, 0)
       ELSE /\ phase' = "failed"
            /\ acquired' = SubSeq(BuildSteps, 1, failAt - 1)
            /\ released' = UnwindLocals(acquired')
            /\ last' = Last("build", settings.title, settings.exit_on_esc,
                            Err(BuildError(BuildSteps[failAt])), 0, 0, 0, 0)
            /\ UNCHANGED <<registered, display, exit_on_esc, title, event_settings,
                           should_close>>
    /\ UNCHANGED <<pc, event_queue>>

\* The window goes out of scope, at the end of its scope or while a panic unwinds.
drop ==
    /\ phase \in {"open", "panicked"}
    /\ pc = "idle"
    /\ phase' = "dropped"
    /\ released' = FieldOrder
    /\ registered' = {}
    /\ event_queue' = <<>>
    /\ last' = IF phase = "open" THEN Last("drop", "", FALSE, Unit, 0, 0, 0, 0) ELSE last
    /\ UNCHANGED <<pc, should_close, exit_on_esc, title, event_settings, display,
                   acquired>>

(***************************************************************************)
(* Accessors.                                                              *)
(***************************************************************************)
Callable == phase = "open" /\ pc = "idle"

set_should_close(value) ==
    /\ Callable
    /\ should_close' = value
    /\ last' = Last("set_should_close", "", value, Unit, 0, 0, 0, 0)
    /\ UNCHANGED <<phase, pc, exit_on_esc, title, event_settings, display,
                   event_queue, registered, acquired, released>>

\* Variant: the new title is kept in the field and not handed to the display.
set_title_field_only(value) ==
    /\ Callable
    /\ title' = value
    /\ last' = Last("set_title", value, FALSE, Unit, 0, 0, 0, 0)
    /\ UNCHANGED <<phase, pc, should_close, exit_on_esc, event_settings, display,
                   event_queue, registered, acquired, released>>

set_title(value) ==
    /\ Callable
    /\ display' = [display EXCEPT !.title = value]
    /\ title' = value
    /\ last' = Last("set_title", value, FALSE, Unit, 0, 0, 0, 0)
    /\ UNCHANGED <<phase, pc, should_close, exit_on_esc, event_settings,
                   event_queue, registered, acquired, released>>

\* AdvancedWindow::title, the builder-style set_title.
title_builder(value) ==
    /\ Callable
    /\ display' = [display EXCEPT !.title = value]
    /\ title' = value
    /\ last' = Last("title", value, FALSE, Unit, 0, 0, 0, 0)
    /\ UNCHANGED <<phase, pc, should_close, exit_on_esc, event_settings,
                   event_queue, registered, acquired, released>>

\* Variant: switching the flag on applies it to the Escape press just returned.
set_exit_on_esc_retroactive(value) ==
    /\ Callable
    /\ exit_on_esc' = value
    /\ should_close' = IF value /\ IsEscapePress(last.result) THEN TRUE ELSE should_close
    /\ last' = Last("set_exit_on_esc", "", value, Unit, 0, 0, 0, 0)
    /\ UNCHANGED <<phase, pc, title, event_settings, display,
                   event_queue, registered, acquired, released>>

set_exit_on_esc(value) ==
    /\ Callable
    /\ exit_on_esc' = value
    /\ last' = Last("set_exit_on_esc", "", value, Unit, 0, 0, 0, 0)
    /\ UNCHANGED <<phase, pc, should_close, title, event_settings, display,
                   event_queue, registered, acquired, released>>

set_position(value) ==
    /\ Callable
    /\ display' = [display EXCEPT !.pos = value]
    /\ last' = Last("set_position", "", FALSE, Unit, 0, 0, 0, 0)
    /\ UNCHANGED <<phase, pc, should_close, exit_on_esc, title, event_settings,
                   event_queue, registered, acquired, released>>

set_event_settings(settings) ==
    /\ Callable
    /\ event_settings' = settings
    /\ last' = Last("set_event_settings", "", FALSE, Unit, 0, 0, 0, 0)
    /\ UNCHANGED <<phase, pc, should_close, exit_on_esc, title, display,
                   event_queue, registered, acquired, released>>

swap_buffers ==
    /\ Callable
    /\ last' = Last("swap_buffers", "", FALSE, Unit, 0, 0, 0, 0)
    /\ UNCHANGED <<phase, pc, should_close, exit_on_esc, title, event_settings,
                   display, event_queue, registered, acquired, released>>

(***************************************************************************)
(* The native queue, as the three retrieval calls see it.                  *)
(***************************************************************************)
\* get_next_event, and wait_for_event_timed once its timeout has run out:
\* the oldest raw event, or NoEvent when nothing is pending.
NextRaw(q) == IF q = <<>> THEN NoEvent ELSE Head(q)
Remaining(q) == IF q = <<>> THEN q ELSE Tail(q)

\* Variant: the duration is rounded to the nearest second.
as_secs_rounded(millis) == (millis + 500) \div 1000

\* Duration::as_secs of a duration given in milliseconds.
as_secs(millis) == millis \div 1000

Skip(n) == IF n < MaxSkipped THEN n + 1 ELSE n

\* A native event source delivers a raw event while the queue exists.
Enqueue(e) ==
    /\ phase = "open"
    /\ Len(event_queue) < MaxQueue
    /\ event_queue' = Append(event_queue, e)
    /\ UNCHANGED <<phase, pc, should_close, exit_on_esc, title, event_settings,
                   display, registered, acquired, released, last>>

(***************************************************************************)
(* The polling operations.                                                 *)
(***************************************************************************)
\* wait_event is entered; the thread is in the loop until a raw event that
\* is not NoEvent has been taken.
wait_event_call ==
    /\ Callable
    /\ pc' = "wait_event"
    /\ last' = Last("wait_event", "", FALSE, Pending, 0, 0, 0, 0)
    /\ UNCHANGED <<phase, should_close, exit_on_esc, title, event_settings,
                   display, event_queue, registered, acquired, released>>

\* Variant: the event is handed back without handle_closings.
wait_event_unchecked ==
    /\ phase = "open"
    /\ pc = "wait_event"
    /\ event_queue # <<>>
    /\ event_queue' = Tail(event_queue)
    /\ LET e == Head(event_queue)
       IN  IF e = NoEvent
           THEN /\ last' = [last EXCEPT !.skipped = Skip(@)]
                /\ UNCHANGED <<phase, pc>>
           ELSE LET event == translate_event(e)
                IN  IF IsPanic(event)
                    THEN /\ phase' = "panicked"
                         /\ pc' = "idle"
                         /\ last' = [last EXCEPT !.result = event]
                    ELSE /\ pc' = "idle"
                         /\ last' = [last EXCEPT !.result = event]
                         /\ UNCHANGED phase
    /\ UNCHANGED <<should_close, exit_on_esc, title, event_settings, display,
                   registered, acquired, released>>

\* Variant: no loop, so a NoEvent marker reaches translate_event.
wait_event_no_loop ==
    /\ phase = "open"
    /\ pc = "wait_event"
    /\ event_queue # <<>>
    /\ event_queue' = Tail(event_queue)
    /\ LET event == translate_event(Head(event_queue))
       IN  IF IsPanic(event)
           THEN /\ phase' = "panicked"
                /\ pc' = "idle"
                /\ last' = [last EXCEPT !.result = event]
                /\ UNCHANGED should_close
           ELSE /\ should_close' = handle_closings(exit_on_esc, should_close, event)
                /\ pc' = "idle"
                /\ last' = [last EXCEPT !.result = event, !.closings = @ + 1]
                /\ UNCHANGED phase
    /\ UNCHANGED <<exit_on_esc, title, event_settings, display, registered,
                   acquired, released>>

\* One pass of the loop: wait_for_event blocks while the queue is empty.
wait_event ==
    /\ phase = "open"
    /\ pc = "wait_event"
    /\ event_queue # <<>>
    /\ event_queue' = Tail(event_queue)
    /\ LET e == Head(event_queue)
       IN  IF e = NoEvent
           THEN /\ last' = [last EXCEPT !.skipped = Skip(@)]
                /\ UNCHANGED <<phase, pc, should_close>>
           ELSE LET event == translate_event(e)
                IN  IF IsPanic(event)
                    THEN /\ phase' = "panicked"
                         /\ pc' = "idle"
                         /\ last' = [last EXCEPT !.result = event]
                         /\ UNCHANGED should_close
                    ELSE /\ should_close' = handle_closings(exit_on_esc, should_close, event)
                         /\ pc' = "idle"
                         /\ last' = [last EXCEPT !.result = event, !.closings = @ + 1]
                         /\ UNCHANGED phase
    /\ UNCHANGED <<exit_on_esc, title, event_settings, display, registered,
                   acquired, released>>

RECURSIVE DropMarkers(_)
DropMarkers(q) ==
    IF q # <<>> /\ Head(q) = NoEvent THEN DropMarkers(Tail(q)) ELSE q

\* Variant: the timed wait is repeated past NoEvent markers, as wait_event does.
wait_event_timeout_retry(timeout) ==
    /\ Callable
    /\ event_queue' = Remaining(DropMarkers(event_queue))
    /\ LET secs == as_secs(timeout)
           e == NextRaw(DropMarkers(event_queue))
       IN  IF e = NoEvent
           THEN /\ last' = Last("wait_event_timeout", "", FALSE, None, 0, 0, secs, timeout)
                /\ UNCHANGED <<phase, should_close>>
           ELSE LET event == translate_event(e)
                IN  IF IsPanic(event)
                    THEN /\ phase' = "panicked"
                         /\ last' = Last("wait_event_timeout", "", FALSE, event, 0, 0, secs, timeout)
                         /\ UNCHANGED should_close
                    ELSE /\ should_close' = handle_closings(exit_on_esc, should_close, event)
                         /\ last' = Last("wait_event_timeout", "", FALSE, event, 1, 0, secs, timeout)
                         /\ UNCHANGED phase
    /\ UNCHANGED <<pc, exit_on_esc, title, event_settings, display, registered,
                   acquired, released>>

wait_event_timeout(timeout) ==
    /\ Callable
    /\ event_queue' = Remaining(event_queue)
    /\ LET secs == as_secs(timeout)
           e == NextRaw(event_queue)
       IN  IF e = NoEvent
           THEN /\ last' = Last("wait_event_timeout", "", FALSE, None, 0, 0, secs, timeout)
                /\ UNCHANGED <<phase, should_close>>
           ELSE LET event == translate_event(e)
                IN  IF IsPanic(event)
                    THEN /\ phase' = "panicked"
                         /\ last' = Last("wait_event_timeout", "", FALSE, event, 0, 0, secs, timeout)
                         /\ UNCHANGED should_close
                    ELSE /\ should_close' = handle_closings(exit_on_esc, should_close, event)
                         /\ last' = Last("wait_event_timeout", "", FALSE, event, 1, 0, secs, timeout)
                         /\ UNCHANGED phase
    /\ UNCHANGED <<pc, exit_on_esc, title, event_settings, display, registered,
                   acquired, released>>

\* Variant: the raw event is looked at and left on the queue.
poll_event_peek ==
    /\ Callable
    /\ event_queue' = event_queue
    /\ LET e == NextRaw(event_queue)
       IN  IF e = NoEvent
           THEN /\ last' = Last("poll_event", "", FALSE, None, 0, 0, 0, 0)
                /\ UNCHANGED <<phase, should_close>>
           ELSE LET event == translate_event(e)
                IN  IF IsPanic(event)
                    THEN /\ phase' = "panicked"
                         /\ last' = Last("poll_event", "", FALSE, event, 0, 0, 0, 0)
                         /\ UNCHANGED should_close
                    ELSE /\ should_close' = handle_closings(exit_on_esc, should_close, event)
                         /\ last' = Last("poll_event", "", FALSE, event, 1, 0, 0, 0)
                         /\ UNCHANGED phase
    /\ UNCHANGED <<pc, exit_on_esc, title, event_settings, display, registered,
                   acquired, released>>

\* Variant: the blocking retrieval is used, so an empty queue holds the caller.
poll_event_blocking ==
    /\ Callable
    /\ event_queue # <<>>
    /\ event_queue' = Tail(event_queue)
    /\ LET e == Head(event_queue)
       IN  IF e = NoEvent
           THEN /\ last' = Last("poll_event", "", FALSE, None, 0, 0, 0, 0)
                /\ UNCHANGED <<phase, should_close>>
           ELSE LET event == translate_event(e)
                IN  IF IsPanic(event)
                    THEN /\ phase' = "panicked"
                         /\ last' = Last("poll_event", "", FALSE, event, 0, 0, 0, 0)
                         /\ UNCHANGED should_close
                    ELSE /\ should_close' = handle_closings(exit_on_esc, should_close, event)
                         /\ last' = Last("poll_event", "", FALSE, event, 1, 0, 0, 0)
                         /\ UNCHANGED phase
    /\ UNCHANGED <<pc, exit_on_esc, title, event_settings, display, registered,
                   acquired, released>>

poll_event ==
    /\ Callable
    /\ event_queue' = Remaining(event_queue)
    /\ LET e == NextRaw(event_queue)
       IN  IF e = NoEvent
           THEN /\ last' = Last("poll_event", "", FALSE, None, 0, 0, 0, 0)
                /\ UNCHANGED <<phase, should_close>>
           ELSE LET event == translate_event(e)
                IN  IF IsPanic(event)
                    THEN /\ phase' = "panicked"
                         /\ last' = Last("poll_event", "", FALSE, event, 0, 0, 0, 0)
                         /\ UNCHANGED should_close
                    ELSE /\ should_close' = handle_closings(exit_on_esc, should_close, event)
                         /\ last' = Last("poll_event", "", FALSE, event, 1, 0, 0, 0)
                         /\ UNCHANGED phase
    /\ UNCHANGED <<pc, exit_on_esc, title, event_settings, display, registered,
                   acquired, released>>

(***************************************************************************)
(* The specifications.                                                     *)
(***************************************************************************)
\* The two logs are kept only in the specification that follows the stream
\* of events; everywhere else they stay empty.
Untracked == UNCHANGED <<delivered, returned>>

Next ==
    \/ \E settings \in WindowSettings, failAt \in 0..Len(BuildSteps) :
            build_from_window_settings(settings, failAt) /\ Untracked
    \/ drop /\ Untracked
    \/ \E value \in BOOLEAN : set_should_close(value) /\ Untracked
    \/ \E value \in Titles : set_title(value) /\ Untracked
    \/ \E value \in Titles : title_builder(value) /\ Untracked
    \/ \E value \in BOOLEAN : set_exit_on_esc(value) /\ Untracked
    \/ \E value \in Positions : set_position(value) /\ Untracked
    \/ \E settings \in EventSettings : set_event_settings(settings) /\ Untracked
    \/ swap_buffers /\ Untracked
    \/ \E e \in QueueEvents : Enqueue(e) /\ Untracked
    \/ wait_event_call /\ Untracked
    \/ wait_event /\ Untracked
    \/ \E timeout \in Durations : wait_event_timeout(timeout) /\ Untracked
    \/ poll_event /\ Untracked

Spec == Init /\ [][Next]_vars

\* The calling thread runs: a wait_for_event that can return does return.
FairSpec == Spec /\ WF_vars(wait_event /\ Untracked)

(***************************************************************************)
(* The close policy on its own: handle_closings applied to any input event *)
(* on an open window whose two flags have any values.                      *)
(***************************************************************************)
Keys == {"Escape", "A", "Unknown", "Return", "Space", "F1"}
Buttons == {"Left", "Right", "Middle"}
Inputs ==
    {Close, Resize(640, 480), Text("a"), Text("Escape"), Cursor(TRUE), Cursor(FALSE),
     MouseRelative(1, 2), MouseCursor(100, 50)}
    \cup {KeyboardButton(st, k) : st \in {"Press", "Release"}, k \in Keys}
    \cup {MouseButton(st, b) : st \in {"Press", "Release"}, b \in Buttons}
    \cup {[KeyboardButton("Press", "Escape") EXCEPT !.scancode = "Some(1)"]}

PolicyInit ==
    /\ phase = "open"
    /\ pc = "idle"
    /\ should_close \in BOOLEAN
    /\ exit_on_esc \in BOOLEAN
    /\ title = "T"
    /\ event_settings = EventSettingsNew
    /\ display = [title |-> "T", pos |-> <<0, 0>>]
    /\ event_queue = <<>>
    /\ registered = {"display", "mouse", "keyboard"}
    /\ acquired = BuildSteps
    /\ released = <<>>
    /\ last = Last("none", "", FALSE, Unit, 0, 0, 0, 0)
    /\ delivered = <<>>
    /\ returned = <<>>

\* self.handle_closings(&event); last.flag keeps the value should_close had before.
apply_handle_closings(event) ==
    /\ last.op = "none"
    /\ should_close' = handle_closings(exit_on_esc, should_close, event)
    /\ last' = Last("handle_closings", "", should_close, event, 1, 0, 0, 0)
    /\ UNCHANGED <<phase, pc, exit_on_esc, title, event_settings, display,
                   event_queue, registered, acquired, released>>

PolicyNext == \E event \in Inputs : apply_handle_closings(event) /\ Untracked

PolicySpec == PolicyInit /\ [][PolicyNext]_vars

(***************************************************************************)
(* A window on which exit_on_esc is never switched on and external code    *)
(* never asks for closing.                                                 *)
(***************************************************************************)
EscOffNext ==
    \/ \E settings \in {w \in WindowSettings : ~w.exit_on_esc},
          failAt \in 0..Len(BuildSteps) :
            build_from_window_settings(settings, failAt) /\ Untracked
    \/ drop /\ Untracked
    \/ \E value \in {FALSE} : set_should_close(value) /\ Untracked
    \/ \E value \in Titles : set_title(value) /\ Untracked
    \/ \E value \in Titles : title_builder(value) /\ Untracked
    \/ \E value \in {FALSE} : set_exit_on_esc(value) /\ Untracked
    \/ \E value \in Positions : set_position(value) /\ Untracked
    \/ \E settings \in EventSettings : set_event_settings(settings) /\ Untracked
    \/ swap_buffers /\ Untracked
    \/ \E e \in QueueEvents : Enqueue(e) /\ Untracked
    \/ wait_event_call /\ Untracked
    \/ wait_event /\ Untracked
    \/ \E timeout \in Durations : wait_event_timeout(timeout) /\ Untracked
    \/ poll_event /\ Untracked

EscOffSpec == Init /\ [][EscOffNext]_vars

(***************************************************************************)
(* The translators on their own: one raw event, translated once.           *)
(***************************************************************************)
\* The key codes translate_keycode has an arm for.
MappedKeyCodes ==
    {"A", "B", "C", "D", "E", "F", "G", "H", "I", "J", "K", "L", "M",
     "N", "O", "P", "Q", "R", "S", "T", "U", "V", "W", "X", "Y", "Z",
     "_0", "_1", "_2", "_3", "_4", "_5", "_6", "_7", "_8", "_9", "Pad0",
     "Pad1", "Pad2", "Pad3", "Pad4", "Pad5", "Pad6", "Pad7", "Pad8",
     "Pad9", "F1", "F2", "F3", "F4", "F5", "F6", "F7", "F8", "F9",
     "F10", "F11", "F12", "Escape", "Minus", "Equals", "Backspace",
     "Tab", "Openbrace", "Closebrace", "Enter", "Semicolon", "Quote",
     "Backslash", "Backslash2", "Comma", "Slash", "Space", "Insert",
     "Delete", "Home", "End", "PgUp", "PgDn", "Left", "Right", "Up",
     "Down", "PadMinus", "PadPlus", "PadEnter", "PrintScreen", "Pause",
     "At", "Colon2", "PadEquals", "Backquote", "Semicolon2", "Unknown",
     "LShift", "RShift", "LCtrl", "RCtrl", "Alt", "AltGr", "LWin",
     "RWin", "Menu", "ScrollLock", "NumLock", "CapsLock"}

\* Key codes of the keyboard that translate_keycode has no arm for.
OtherKeyCodes ==
    {"Fullstop", "Tilde", "PadSlash", "PadAsterisk", "PadDelete", "AbntC1", "Yen",
     "Kana", "Convert", "NoConvert", "Circumflex", "Kanji", "Command"}

KeyCodes == MappedKeyCodes \cup OtherKeyCodes

RawInputs ==
    {KeyDown(k) : k \in KeyCodes} \cup {KeyUp(k) : k \in KeyCodes}
    \cup {MouseButtonDown(m) : m \in 0..MaxMask}
    \cup {MouseButtonUp(m) : m \in 0..MaxMask}
    \cup {DisplayClose, DisplayResize(640, 480), DisplayResize(0, 1), KeyChar("a"),
          MouseAxes(1, 2), MouseAxes(-3, 0), MouseWarped(100, 50), MouseWarped(50, 100),
          MouseEnterDisplay, MouseLeaveDisplay, JoystickAxes, JoystickButtonDown,
          JoystickButtonUp, JoystickConfiguration, TimerTick}

TranslateInit ==
    /\ phase = "open"
    /\ pc = "idle"
    /\ should_close = FALSE
    /\ exit_on_esc = FALSE
    /\ title = "T"
    /\ event_settings = EventSettingsNew
    /\ display = [title |-> "T", pos |-> <<0, 0>>]
    /\ event_queue \in {<<e>> : e \in RawInputs}
    /\ registered = {"display", "mouse", "keyboard"}
    /\ acquired = BuildSteps
    /\ released = <<>>
    /\ last = Last("none", "", FALSE, Unit, 0, 0, 0, 0)
    /\ delivered = <<>>
    /\ returned = <<>>

Translated(op, name, result) ==
    /\ last.op = "none"
    /\ last' = Last(op, name, FALSE, result, 0, 0, 0, 0)
    /\ UNCHANGED <<phase, pc, should_close, exit_on_esc, title, event_settings,
                   display, event_queue, registered, acquired, released>>

\* self.translate_event(event), the raw event staying in view on the queue.
apply_translate_event ==
    Translated("translate_event", "", translate_event(Head(event_queue)))

\* self.translate_keycode(keycode); last.arg is the key, or the panic.
apply_translate_keycode ==
    /\ Head(event_queue).type \in {"KeyDown", "KeyUp"}
    /\ Translated("translate_keycode", translate_keycode(Head(event_queue).code), Unit)

\* self.translate_mouse_button(button); last.arg is the button, or the panic.
apply_translate_mouse_button ==
    /\ Head(event_queue).type \in {"MouseButtonDown", "MouseButtonUp"}
    /\ Translated("translate_mouse_button",
                  translate_mouse_button(Head(event_queue).button), Unit)

TranslateNext ==
    \/ apply_translate_event /\ Untracked
    \/ apply_translate_keycode /\ Untracked
    \/ apply_translate_mouse_button /\ Untracked

TranslateSpec == TranslateInit /\ [][TranslateNext]_vars

(***************************************************************************)
(* A queue that also carries the raw events the adapter does not support.  *)
(***************************************************************************)
Unsupported ==
    {JoystickAxes, JoystickButtonDown, JoystickButtonUp, JoystickConfiguration,
     TimerTick}

UnsupportedNext ==
    \/ \E settings \in WindowSettings :
            build_from_window_settings(settings, 0) /\ Untracked
    \/ \E value \in BOOLEAN : set_should_close(value) /\ Untracked
    \/ \E e \in Unsupported \cup {NoEvent, KeyDown("Escape")} : Enqueue(e) /\ Untracked
    \/ wait_event_call /\ Untracked
    \/ wait_event /\ Untracked
    \/ \E timeout \in Durations : wait_event_timeout(timeout) /\ Untracked
    \/ poll_event /\ Untracked

UnsupportedSpec == Init /\ [][UnsupportedNext]_vars

(***************************************************************************)
(* The window with both ends of the event stream logged: what the native   *)
(* sources put on the queue and what the caller got back.                  *)
(***************************************************************************)
StreamEvents == {NoEvent, DisplayClose, KeyDown("Escape"), KeyDown("A"), JoystickAxes}

\* A native source delivers a raw event, and the log takes note of it.
Deliver(e) ==
    /\ Enqueue(e)
    /\ Len(delivered) < MaxDelivered
    /\ delivered' = Append(delivered, e)
    /\ UNCHANGED returned

\* The caller receives what a polling operation returned, if it is an event.
Receive ==
    /\ returned' = IF IsInput(last'.result) THEN Append(returned, last'.result)
                   ELSE returned
    /\ UNCHANGED delivered

StreamNext ==
    \/ \E settings \in {w \in WindowSettings : w.title = "T"} :
            build_from_window_settings(settings, 0) /\ Untracked
    \/ \E value \in BOOLEAN : set_exit_on_esc(value) /\ Untracked
    \/ \E value \in {TRUE} : set_should_close(value) /\ Untracked
    \/ \E e \in StreamEvents : Deliver(e)
    \/ wait_event_call /\ Receive
    \/ wait_event /\ Receive
    \/ \E timeout \in {1500} : wait_event_timeout(timeout) /\ Receive
    \/ poll_event /\ Receive

StreamSpec == Init /\ [][StreamNext]_vars

(***************************************************************************)
(* Steps of the operations, told apart in a pair of states.                *)
(***************************************************************************)
PollingOps == {"wait_event", "wait_event_timeout", "poll_event"}

\* A native source added a raw event: the only step on an open window that
\* is not a call on it.
IsEnqueue == last' = last /\ Len(event_queue') = Len(event_queue) + 1

\* A step of operation op on the open window.
CallStep(op) ==
    /\ phase = "open"
    /\ phase' # "dropped"
    /\ last'.op = op
    /\ ~IsEnqueue

\* A step in which polling operation op asks the native queue for an event.
RetrieveStep(op) ==
    /\ CallStep(op)
    /\ op = "wait_event" => pc = "wait_event"

EscapePress == KeyboardButton("Press", "Escape")

HasEvent(q) == \E i \in 1..Len(q) : q[i] # NoEvent

(***************************************************************************)
(* The properties.                                                         *)
(***************************************************************************)

\* C1: whichever of wait_event, wait_event_timeout and poll_event hands back
\* an event has run handle_closings on it exactly once before returning; a
\* key-down of Escape comes back as Button(Press, Keyboard(Escape)), and on a
\* window with exit_on_esc on should_close is true as soon as the call is over.
C1_ClosePolicyBeforeReturn ==
    [][\A op \in PollingOps :
         /\ (RetrieveStep(op) /\ IsInput(last'.result)) =>
                /\ last'.closings = 1
                /\ pc' = "idle"
         /\ (RetrieveStep(op) /\ NextRaw(event_queue) = KeyDown("Escape")) =>
                /\ last'.result = EscapePress
                /\ exit_on_esc => should_close'
      ]_vars

C1_Witness ==
    /\ last.op = "wait_event"
    /\ pc = "idle"
    /\ last.result = EscapePress
    /\ last.closings = 1
    /\ exit_on_esc
    /\ should_close

\* C2: handle_closings leaves should_close true exactly when exit_on_esc is
\* on and the event is a keyboard press of Escape, or should_close was true
\* already; for every other event and flag it keeps the value it had before.
C2_ClosePolicyIff ==
    last.op = "handle_closings" =>
        should_close =
            IF /\ exit_on_esc
               /\ last.result.kind = "Button"
               /\ last.result.state = "Press"
               /\ last.result.dev = "Keyboard"
               /\ last.result.code = "Escape"
            THEN TRUE
            ELSE last.flag

C2_Witness ==
    /\ last.op = "handle_closings"
    /\ exit_on_esc
    /\ ~last.flag
    /\ last.result = EscapePress
    /\ should_close

\* C3: should_close goes from true to false only in a set_should_close(false)
\* step; no polling operation, other setter or swap_buffers clears it.
C3_NeverSelfClears ==
    [][(should_close /\ ~should_close') =>
            (last'.op = "set_should_close" /\ last'.flag = FALSE)]_vars

C3_Witness ==
    /\ should_close
    /\ ~exit_on_esc
    /\ last.op = "wait_event_timeout"
    /\ last.result = KeyboardButton("Press", "A")

\* C4: with exit_on_esc never on and set_should_close(true) never called,
\* should_close is false in every state, and a key-down of Escape comes back
\* from each polling operation as Button(Press, Keyboard(Escape)) with
\* should_close still false.
C4_EscOffNeverCloses ==
    /\ [](~should_close)
    /\ [][\A op \in PollingOps :
            (RetrieveStep(op) /\ NextRaw(event_queue) = KeyDown("Escape")) =>
                /\ last'.result = EscapePress
                /\ ~should_close'
         ]_vars

C4_Witness ==
    /\ last.op = "poll_event"
    /\ last.result = EscapePress
    /\ ~exit_on_esc
    /\ ~should_close

\* C5: wait_event is over only after it took a raw event that is not NoEvent:
\* each NoEvent it takes leaves it waiting, the first other raw event ends it
\* with that event's translation, and once such an event is in the queue the
\* call does end (in the translation, or in the panic of a raw event that
\* translate_event rejects).
C5_WaitEventSkipsNoEvent ==
    /\ []((pc = "idle" /\ phase = "open" /\ last.op = "wait_event") => IsInput(last.result))
    /\ [][(pc = "wait_event" /\ RetrieveStep("wait_event")) =>
            /\ event_queue # <<>>
            /\ event_queue' = Tail(event_queue)
            /\ IF Head(event_queue) = NoEvent
               THEN pc' = "wait_event" /\ last'.result = Pending /\ phase' = "open"
               ELSE pc' = "idle" /\ last'.result = translate_event(Head(event_queue))
         ]_vars
    /\ [][(pc = "wait_event" /\ pc' # "wait_event") =>
            (event_queue # <<>> /\ Head(event_queue) # NoEvent)]_vars
    /\ (pc = "wait_event" /\ HasEvent(event_queue))
          ~> (pc = "idle" /\ last.op = "wait_event" /\ last.result # Pending)

C5_Witness ==
    /\ pc = "idle"
    /\ last.op = "wait_event"
    /\ last.skipped = 3
    /\ last.result = Close

\* C6: a wait_event_timeout call asks the native queue once and is over: it
\* takes at most the oldest raw event, gives none with should_close untouched
\* when that is NoEvent, and otherwise gives the translation after one
\* handle_closings; a NoEvent never makes it ask again.
C6_TimedWaitOnce ==
    [][CallStep("wait_event_timeout") =>
         LET e == NextRaw(event_queue)
         IN  /\ event_queue' = Remaining(event_queue)
             /\ pc' = "idle"
             /\ IF e = NoEvent
                THEN /\ last'.result = None
                     /\ last'.closings = 0
                     /\ should_close' = should_close
                ELSE /\ last'.result = translate_event(e)
                     /\ IsInput(last'.result) =>
                            /\ last'.closings = 1
                            /\ should_close' =
                                 (should_close \/ (exit_on_esc /\ last'.result = EscapePress))
      ]_vars

C6_Witness ==
    /\ last.op = "wait_event_timeout"
    /\ last.result = None
    /\ event_queue = <<DisplayClose>>

\* C7: poll_event can always be called and is over in one step: with nothing
\* pending it gives none and leaves should_close, exit_on_esc and title as
\* they were; with a raw event pending it takes exactly that one, and gives
\* its translation after one handle_closings.
C7_PollNeverBlocks ==
    /\ [](Callable => ENABLED (poll_event /\ Untracked))
    /\ [][CallStep("poll_event") =>
            LET e == NextRaw(event_queue)
            IN  /\ pc' = "idle"
                /\ event_queue' = Remaining(event_queue)
                /\ UNCHANGED <<exit_on_esc, title>>
                /\ IF e = NoEvent
                   THEN /\ last'.result = None
                        /\ UNCHANGED should_close
                   ELSE /\ last'.result = translate_event(e)
                        /\ IsInput(last'.result) =>
                               /\ last'.closings = 1
                               /\ should_close' =
                                    (should_close \/ (exit_on_esc /\ last'.result = EscapePress))
         ]_vars

C7_Witness ==
    /\ last.op = "poll_event"
    /\ last.result = KeyboardButton("Release", "Escape")
    /\ event_queue = <<KeyDown("A")>>

\* C8: a DisplayClose taken by any polling operation comes back as Close and
\* leaves should_close at the value it had.
C8_CloseDoesNotRequestClosing ==
    [][\A op \in PollingOps :
         (RetrieveStep(op) /\ NextRaw(event_queue) = DisplayClose) =>
             /\ last'.result = Close
             /\ should_close' = should_close
      ]_vars

C8_Witness ==
    /\ last.op = "wait_event_timeout"
    /\ last.result = Close
    /\ exit_on_esc
    /\ ~should_close

\* C9: build_from_window_settings takes core, display, event queue, mouse and
\* keyboard in that order; when a step fails it gives an error and no window,
\* with every handle it had taken released; when all succeed the window has
\* should_close false and the title and exit_on_esc of the settings.
C9_BuildAllOrNothing ==
    /\ \E k \in 0..5 :
          acquired = SubSeq(<<"core", "display", "event_queue", "mouse", "keyboard">>, 1, k)
    /\ phase = "failed" =>
          /\ last.op = "build"
          /\ last.result.kind = "Err"
          /\ Len(acquired) < 5
          /\ \A i \in 1..Len(acquired) :
                acquired[i] \in {"core", "display", "event_queue"} =>
                    \E j \in 1..Len(released) : released[j] = acquired[i]
          /\ title = "" /\ registered = {} /\ ~should_close
    /\ last.op = "build" => (phase = "open" <=> last.result = Ok)
    /\ (last.op = "build" /\ phase = "open") =>
          /\ ~should_close
          /\ title = last.arg
          /\ exit_on_esc = last.flag
          /\ Len(acquired) = 5
          /\ released = <<>>

C9_Witness ==
    /\ phase = "failed"
    /\ acquired = <<"core", "display", "event_queue", "mouse">>
    /\ Len(released) = 3
    /\ last.result = Err("failed to install mouse")

\* C10: a window that went out of scope released its handles in reverse order
\* of acquisition: event queue, then display, then core.
C10_ReleaseInReverseOrder ==
    phase = "dropped" => released = <<"event_queue", "display", "core">>

\* C11: a joystick or timer raw event taken by wait_event, wait_event_timeout
\* or poll_event ends the call in the "not supported" panic: no event and no
\* none comes back, handle_closings is not run and should_close keeps its value.
C11_UnsupportedIsFatal ==
    [][\A op \in PollingOps :
         (/\ RetrieveStep(op)
          /\ NextRaw(event_queue).type \in
                {"JoystickAxes", "JoystickButtonDown", "JoystickButtonUp",
                 "JoystickConfiguration", "TimerTick"}) =>
             /\ phase' = "panicked"
             /\ last'.result.kind = "Panic"
             /\ last'.result.code =
                    IF NextRaw(event_queue).type = "TimerTick"
                    THEN "timer events not supported"
                    ELSE "joystick events not supported"
             /\ last'.closings = 0
             /\ should_close' = should_close
      ]_vars

C11_Witness ==
    /\ phase = "panicked"
    /\ last.op = "wait_event"
    /\ last.result = Panic("timer events not supported")
    /\ exit_on_esc
    /\ ~should_close

\* C12: translate_keycode gives a key, never a panic, for the ordinary keyboard
\* codes full stop, tilde, keypad slash, keypad asterisk and keypad delete.
C12_OrdinaryCodesTranslate ==
    (/\ last.op = "translate_keycode"
     /\ Head(event_queue).code \in
            {"Fullstop", "Tilde", "PadSlash", "PadAsterisk", "PadDelete"}) =>
        last.arg # PanicKey

\* C13: translate_mouse_button answers Left, Right, Middle for the lowest set bit
\* among bits 0, 1, 2 of the mask, and panics when none of the three is set.
C13_LowestBitWins ==
    last.op = "translate_mouse_button" =>
        LET mask == Head(event_queue).button
            low == {i \in 0..2 : (mask \div (2 ^ i)) % 2 = 1}
        IN  /\ 0 \in low => last.arg = "Left"
            /\ (0 \notin low /\ 1 \in low) => last.arg = "Right"
            /\ low = {2} => last.arg = "Middle"
            /\ low = {} => last.arg = PanicButton
            /\ mask = 1 => last.arg = "Left"
            /\ mask = 2 => last.arg = "Right"
            /\ mask = 4 => last.arg = "Middle"
            /\ mask \in {3, 5, 7} => last.arg = "Left"
            /\ mask = 6 => last.arg = "Right"
            /\ mask \in {0, 8} => last.arg = PanicButton

C13_Witness ==
    /\ last.op = "translate_mouse_button"
    /\ Head(event_queue).button = 6
    /\ last.arg = "Right"

\* C14: translate_event follows the table: resize keeps width and height, key
\* down/up is a keyboard Press/Release of the translated key, key char is Text,
\* mouse axes is a relative Move, mouse button down/up is a mouse Press/Release
\* of the translated button, mouse warp is a cursor Move, enter/leave display is
\* Cursor(true)/Cursor(false); every Button carries scancode None.
C14_TranslationTable ==
    last.op = "translate_event" =>
        LET e == Head(event_queue)
            r == last.result
            key == translate_keycode(e.code)
            button == translate_mouse_button(e.button)
        IN  /\ e.type = "DisplayResize" =>
                r.kind = "Resize" /\ r.x = e.x /\ r.y = e.y
            /\ (e.type = "KeyDown" /\ key # PanicKey) =>
                r.kind = "Button" /\ r.state = "Press"
                    /\ r.dev = "Keyboard" /\ r.code = key
            /\ (e.type = "KeyUp" /\ key # PanicKey) =>
                r.kind = "Button" /\ r.state = "Release"
                    /\ r.dev = "Keyboard" /\ r.code = key
            /\ e.type = "KeyChar" => r.kind = "Text" /\ r.code = e.code
            /\ e.type = "MouseAxes" =>
                r.kind = "Move" /\ r.dev = "MouseRelative" /\ r.x = e.x /\ r.y = e.y
            /\ (e.type = "MouseButtonDown" /\ button # PanicButton) =>
                r.kind = "Button" /\ r.state = "Press"
                    /\ r.dev = "Mouse" /\ r.code = button
            /\ (e.type = "MouseButtonUp" /\ button # PanicButton) =>
                r.kind = "Button" /\ r.state = "Release"
                    /\ r.dev = "Mouse" /\ r.code = button
            /\ e.type = "MouseWarped" =>
                r.kind = "Move" /\ r.dev = "MouseCursor" /\ r.x = e.x /\ r.y = e.y
            /\ e.type = "MouseEnterDisplay" => r.kind = "Cursor" /\ r.code = "true"
            /\ e.type = "MouseLeaveDisplay" => r.kind = "Cursor" /\ r.code = "false"
            /\ r.kind = "Button" => r.scancode = "None"

C14_Witness ==
    /\ last.op = "translate_event"
    /\ Head(event_queue) = KeyUp("Escape")
    /\ last.result = KeyboardButton("Release", "Escape")
    /\ last.result.scancode = "None"

\* C15: once the window is built, the title field and the title of the native
\* display are the same, after build and after every set_title or title call.
C15_TitleInSync ==
    phase \in {"open", "panicked"} => title = display.title

C15_Witness ==
    /\ phase = "open"
    /\ last.op = "set_title"
    /\ last.arg = "U"
    /\ title = "U"
    /\ display.title = "U"

\* C16: the timeout wait_event_timeout hands to the native wait is the duration
\* cut down to whole seconds: 999 ms gives 0, 1500 ms gives 1.
C16_TimeoutWholeSeconds ==
    last.op = "wait_event_timeout" =>
        /\ last.timeout * 1000 <= last.requested
        /\ last.requested < (last.timeout + 1) * 1000
        /\ last.requested = 999 => last.timeout = 0
        /\ last.requested = 1500 => last.timeout = 1

C16_Witness ==
    /\ last.op = "wait_event_timeout"
    /\ last.requested = 1500
    /\ last.timeout = 1

\* C19: a step of wait_event, wait_event_timeout or poll_event leaves
\* exit_on_esc, title and event_settings as they are; should_close is the only
\* field it may change, and only from false to true.
C19_PollingFrame ==
    [][\A op \in PollingOps :
         CallStep(op) =>
             /\ UNCHANGED <<exit_on_esc, title, event_settings>>
             /\ should_close => should_close'
      ]_vars

C19_Witness ==
    /\ phase = "open"
    /\ last.op = "wait_event_timeout"
    /\ last.result = EscapePress
    /\ should_close
    /\ exit_on_esc
    /\ title = "U"
    /\ event_settings # EventSettingsNew

\* C17: whatever the interleaving of wait_event, wait_event_timeout and
\* poll_event, the events returned so far are the translations of the raw events
\* other than NoEvent taken from the queue so far, one for one and in order, and
\* the queue holds the rest of what was delivered; a panic is the translation
\* of the last raw event taken.
C17_StreamIsTranslation ==
    phase \in {"open", "panicked"} =>
        LET n == Len(delivered) - Len(event_queue)
            taken == SelectSeq(SubSeq(delivered, 1, n), LAMBDA e : e # NoEvent)
        IN  /\ n >= 0
            /\ event_queue = SubSeq(delivered, n + 1, Len(delivered))
            /\ Len(returned) = IF phase = "open" THEN Len(taken) ELSE Len(taken) - 1
            /\ \A i \in 1..Len(returned) : returned[i] = translate_event(taken[i])
            /\ phase = "panicked" => IsPanic(translate_event(taken[Len(taken)]))

C17_Witness ==
    /\ delivered = <<KeyDown("Escape"), NoEvent, DisplayClose>>
    /\ returned = <<EscapePress, Close>>
    /\ event_queue = <<>>

\* C18: set_exit_on_esc only stores the flag: it neither sets nor clears
\* should_close, whatever was returned before; the close policy of a retrieval
\* uses the value exit_on_esc has in that step.
C18_SetExitOnEscNotRetroactive ==
    [][/\ CallStep("set_exit_on_esc") =>
            /\ should_close' = should_close
            /\ returned' = returned
       /\ \A op \in PollingOps :
            (RetrieveStep(op) /\ IsInput(last'.result)) =>
                should_close' =
                    (should_close \/ (exit_on_esc /\ last'.result = EscapePress))
      ]_vars

C18_Witness ==
    /\ returned = <<EscapePress>>
    /\ last.op = "set_exit_on_esc"
    /\ last.flag
    /\ exit_on_esc
    /\ ~should_close

====
